---- MODULE Spec2Model ----
(***************************************************************************)
(* The Bonds space of lifelib's BasicBonds model: the projection date     *)
(* axis (dates, t_length), the bucketing of a bond's cashflow and         *)
(* redemption events into projection periods (cashflows, redemptions),    *)
(* the portfolio totals, the tenor chosen by schedule, and the global     *)
(* evaluation date that riskfree_curve assigns.                           *)
(*                                                                         *)
(* A date is <<year, month, day>>.  A configured date is the string        *)
(* 'YYYY-MM-DD', kept as its ten characters.  A cashflow event is a       *)
(* record [date, kind, amount]; a bond row is [tenor, leg], leg being the  *)
(* events the instrument hands out, in the order it hands them out.       *)
(***************************************************************************)
EXTENDS Integers, Sequences, FiniteSets, TLC

VARIABLES
    date_init,       \* reference: valuation date string
    date_end,        \* reference: projection end date string
    bond_data,       \* reference: bond table, row b is bond id b
    evaluationDate,  \* ql.Settings.instance().evaluationDate
    pc,              \* the cell whose loop is running, or "idle"
    frame,           \* locals of the running (or last finished) loop
    ret,             \* what the last finished call returned or raised
    remembered,      \* an earlier result of cashflows / redemptions
    pass             \* bookkeeping of the running bucketing pass

vars == <<date_init, date_end, bond_data, evaluationDate, pc, frame, ret,
          remembered, pass>>

config == <<date_init, date_end, bond_data>>

-----------------------------------------------------------------------------
\* Bounds of the model

MaxLen == 3        \* events of the single bond of SpecBucket
MaxBonds == 2      \* rows of the bond table of Spec

-----------------------------------------------------------------------------
\* Dates

NullDate == <<0, 0, 0>>

Digit(c) ==
    CASE c = "0" -> 0 [] c = "1" -> 1 [] c = "2" -> 2 [] c = "3" -> 3
      [] c = "4" -> 4 [] c = "5" -> 5 [] c = "6" -> 6 [] c = "7" -> 7
      [] c = "8" -> 8 [] c = "9" -> 9

\* ql.Date(s, "%Y-%m-%d")
ParseDate(s) ==
    << Digit(s[1]) * 1000 + Digit(s[2]) * 100 + Digit(s[3]) * 10 + Digit(s[4]),
       Digit(s[6]) * 10 + Digit(s[7]),
       Digit(s[9]) * 10 + Digit(s[10]) >>

IsLeap(y) == (y % 4 = 0 /\ y % 100 # 0) \/ y % 400 = 0

DateLT(a, b) ==
    \/ a[1] < b[1]
    \/ a[1] = b[1] /\ a[2] < b[2]
    \/ a[1] = b[1] /\ a[2] = b[2] /\ a[3] < b[3]

DateLE(a, b) == a = b \/ DateLT(a, b)

\* d + ql.Period('1Y'): same day and month one year on, 29 February falling
\* back to 28 February in a year that is not a leap year
AddYear(d) ==
    LET y == d[1] + 1
    IN  <<y, d[2], IF d[2] = 2 /\ d[3] = 29 /\ ~IsLeap(y) THEN 28 ELSE d[3]>>

RECURSIVE dates(_)
dates(t) == IF t = 0 THEN ParseDate(date_init) ELSE AddYear(dates(t - 1))

\* as t_length_test, with <= for <
t_length_test_le(t) == DateLE(dates(t), ParseDate(date_end))

\* the test of the loop of t_length
t_length_test(t) == DateLT(dates(t), ParseDate(date_end))

RECURSIVE t_length_loop(_)
t_length_loop(t) == IF t_length_test(t) THEN t_length_loop(t + 1) ELSE t

t_length == t_length_loop(0)

-----------------------------------------------------------------------------
\* Reference data

bond_index == 1..Len(bond_data)

\* fixed_rate_bond(bond_id).cashflows()
bond_cashflows(bond_id) == bond_data[bond_id].leg

IsRedemption(e) == e.kind = "redemption"

\* fixed_rate_bond(bond_id).redemptions()
bond_redemptions(bond_id) == SelectSeq(bond_data[bond_id].leg, IsRedemption)

\* as schedule_tenor, testing for the label the bond table uses
schedule_tenor_6M(label) == IF label = "6M" THEN "Semiannual" ELSE "Annual"

\* the frequency schedule hands to ql.Schedule
schedule_tenor(label) == IF label = "6Y" THEN "Semiannual" ELSE "Annual"

-----------------------------------------------------------------------------
\* Frames

Zeros(n) == [k \in 1..n |-> 0]

NoFrame == [cell |-> "none", bond_id |-> 0, leg |-> <<>>, result |-> <<>>,
            i |-> 0, t |-> 0, status |-> "none"]

NoRet == [cell |-> "none", bond_id |-> 0, status |-> "none", value |-> <<>>]

NoRemembered ==
    [cell |-> "none", bond_id |-> 0, status |-> "none", value |-> <<>>,
     reruns |-> 0]

NoPass == [steps |-> 0, added |-> <<>>, regress |-> FALSE]

-----------------------------------------------------------------------------
\* cashflows(bond_id)

\* as cashflows_enter, the result list outliving the call that filled it
cashflows_enter_stale(bond_id) ==
    [cell |-> "cashflows", bond_id |-> bond_id, leg |-> bond_cashflows(bond_id),
     result |-> IF frame.cell = "cashflows" /\ Len(frame.result) = t_length
                  THEN frame.result ELSE Zeros(t_length),
     i |-> 0, t |-> 0, status |-> "running"]

\* result = [0] * t_length(); leg = fixed_rate_bond(bond_id).cashflows(); i = 0
cashflows_enter(bond_id) ==
    [cell |-> "cashflows", bond_id |-> bond_id, leg |-> bond_cashflows(bond_id),
     result |-> Zeros(t_length), i |-> 0, t |-> 0, status |-> "running"]

\* as cashflows_step, a period taken as (dates(t), dates(t+1)]
cashflows_step_closed_above(f) ==
    LET e == f.leg[f.i + 1]
    IN  IF f.t >= t_length
          THEN [f EXCEPT !.status = "returned"]
        ELSE IF f.i >= Len(f.leg)
          THEN [f EXCEPT !.t = @ + 1]
        ELSE IF f.i > 0 /\ ~DateLE(f.leg[f.i].date, e.date)
          THEN [f EXCEPT !.status = "AssertionError"]
        ELSE IF DateLT(dates(f.t), e.date) /\ DateLE(e.date, dates(f.t + 1))
          THEN [f EXCEPT !.result[f.t + 1] = @ + e.amount, !.i = @ + 1]
        ELSE IF DateLT(dates(f.t + 1), e.date)
          THEN [f EXCEPT !.t = @ + 1]
        ELSE [f EXCEPT !.i = @ + 1]

\* as cashflows_step, without the break: an event of a later period is
\* passed over
cashflows_step_no_break(f) ==
    LET e == f.leg[f.i + 1]
    IN  IF f.t >= t_length
          THEN [f EXCEPT !.status = "returned"]
        ELSE IF f.i >= Len(f.leg)
          THEN [f EXCEPT !.t = @ + 1]
        ELSE IF f.i > 0 /\ ~DateLE(f.leg[f.i].date, e.date)
          THEN [f EXCEPT !.status = "AssertionError"]
        ELSE IF DateLE(dates(f.t), e.date) /\ DateLT(e.date, dates(f.t + 1))
          THEN [f EXCEPT !.result[f.t + 1] = @ + e.amount, !.i = @ + 1]
        ELSE [f EXCEPT !.i = @ + 1]

\* One step of the loops of cashflows: one pass through the body of the
\* while loop, or the end of the while loop, or the return.
\* Python's leg[i] is f.leg[f.i + 1] and result[t] is f.result[f.t + 1].
cashflows_step(f) ==
    LET e == f.leg[f.i + 1]
    IN  IF f.t >= t_length
          THEN [f EXCEPT !.status = "returned"]
        ELSE IF f.i >= Len(f.leg)
          THEN [f EXCEPT !.t = @ + 1]
        ELSE IF f.i > 0 /\ ~DateLE(f.leg[f.i].date, e.date)
          THEN [f EXCEPT !.status = "AssertionError"]
        ELSE IF DateLE(dates(f.t), e.date) /\ DateLT(e.date, dates(f.t + 1))
          THEN [f EXCEPT !.result[f.t + 1] = @ + e.amount, !.i = @ + 1]
        ELSE IF DateLE(dates(f.t + 1), e.date)
          THEN [f EXCEPT !.t = @ + 1]
        ELSE [f EXCEPT !.i = @ + 1]

RECURSIVE cashflows_run(_)
cashflows_run(f) ==
    IF f.status # "running" THEN f ELSE cashflows_run(cashflows_step(f))

\* the call cashflows(bond_id), from entry to return or raise
cashflows(bond_id) == cashflows_run(cashflows_enter(bond_id))

-----------------------------------------------------------------------------
\* redemptions(bond_id)

redemptions_enter(bond_id) ==
    [cell |-> "redemptions", bond_id |-> bond_id,
     leg |-> bond_redemptions(bond_id),
     result |-> Zeros(t_length), i |-> 0, t |-> 0, status |-> "running"]

\* as redemptions_step, the cursor starting over in every period
redemptions_step_rewind(f) ==
    LET e == f.leg[f.i + 1]
    IN  IF f.t >= t_length
          THEN [f EXCEPT !.status = "returned"]
        ELSE IF f.i >= Len(f.leg)
          THEN [f EXCEPT !.t = @ + 1, !.i = 0]
        ELSE IF DateLE(dates(f.t), e.date) /\ DateLT(e.date, dates(f.t + 1))
          THEN [f EXCEPT !.result[f.t + 1] = @ + e.amount, !.i = @ + 1]
        ELSE IF DateLE(dates(f.t + 1), e.date)
          THEN [f EXCEPT !.t = @ + 1, !.i = 0]
        ELSE [f EXCEPT !.i = @ + 1]

redemptions_step(f) ==
    LET e == f.leg[f.i + 1]
    IN  IF f.t >= t_length
          THEN [f EXCEPT !.status = "returned"]
        ELSE IF f.i >= Len(f.leg)
          THEN [f EXCEPT !.t = @ + 1]
        ELSE IF DateLE(dates(f.t), e.date) /\ DateLT(e.date, dates(f.t + 1))
          THEN [f EXCEPT !.result[f.t + 1] = @ + e.amount, !.i = @ + 1]
        ELSE IF DateLE(dates(f.t + 1), e.date)
          THEN [f EXCEPT !.t = @ + 1]
        ELSE [f EXCEPT !.i = @ + 1]

RECURSIVE redemptions_run(_)
redemptions_run(f) ==
    IF f.status # "running" THEN f ELSE redemptions_run(redemptions_step(f))

redemptions(bond_id) == redemptions_run(redemptions_enter(bond_id))

-----------------------------------------------------------------------------
\* cashflows_total() and redemptions_total()

\* f.t is the period of the outer loop, f.i the number of rows of
\* bond_data.index the inner loop has done for that period.
cashflows_total_enter ==
    [cell |-> "cashflows_total", bond_id |-> 0, leg |-> <<>>,
     result |-> Zeros(t_length), i |-> 0, t |-> 0, status |-> "running"]

\* as cashflows_total_step, assigning where the code adds
cashflows_total_step_assign(f) ==
    LET c == cashflows(f.i + 1)
    IN  IF f.t >= t_length
          THEN [f EXCEPT !.status = "returned"]
        ELSE IF f.i >= Len(bond_data)
          THEN [f EXCEPT !.t = @ + 1, !.i = 0]
        ELSE IF c.status # "returned"
          THEN [f EXCEPT !.status = c.status]
        ELSE [f EXCEPT !.result[f.t + 1] = c.result[f.t + 1], !.i = @ + 1]

cashflows_total_step(f) ==
    LET c == cashflows(f.i + 1)
    IN  IF f.t >= t_length
          THEN [f EXCEPT !.status = "returned"]
        ELSE IF f.i >= Len(bond_data)
          THEN [f EXCEPT !.t = @ + 1, !.i = 0]
        ELSE IF c.status # "returned"
          THEN [f EXCEPT !.status = c.status]
        ELSE [f EXCEPT !.result[f.t + 1] = @ + c.result[f.t + 1], !.i = @ + 1]

redemptions_total_enter ==
    [cell |-> "redemptions_total", bond_id |-> 0, leg |-> <<>>,
     result |-> Zeros(t_length), i |-> 0, t |-> 0, status |-> "running"]

redemptions_total_step(f) ==
    LET c == redemptions(f.i + 1)
    IN  IF f.t >= t_length
          THEN [f EXCEPT !.status = "returned"]
        ELSE IF f.i >= Len(bond_data)
          THEN [f EXCEPT !.t = @ + 1, !.i = 0]
        ELSE IF c.status # "returned"
          THEN [f EXCEPT !.status = c.status]
        ELSE [f EXCEPT !.result[f.t + 1] = @ + c.result[f.t + 1], !.i = @ + 1]

\* whether this step of a total evaluates a per-bond cell, and with it
\* fixed_rate_bond, discount_curve and riskfree_curve
total_step_calls_bond(f) == f.t < t_length /\ f.i < Len(bond_data)

-----------------------------------------------------------------------------
\* Actions

Returned(f) ==
    [cell |-> f.cell, bond_id |-> f.bond_id, status |-> f.status,
     value |-> IF f.status = "returned" THEN f.result ELSE <<>>]

\* bookkeeping of a bucketing pass: the steps that moved the cursor or the
\* period, and how often each event's amount was added to a bucket
PassAfter(f, g) ==
    [steps |-> IF g.status = "running" THEN pass.steps + 1 ELSE pass.steps,
     added |-> IF g.result # f.result
                 THEN [pass.added EXCEPT ![f.i + 1] = @ + 1]
                 ELSE pass.added,
     regress |-> pass.regress \/ g.i < f.i \/ g.t < f.t]

\* whether the remembered result has been computed again since
RememberedAfter(g) ==
    IF /\ g.status # "running"
       /\ g.cell = remembered.cell
       /\ g.bond_id = remembered.bond_id
      THEN [remembered EXCEPT !.reruns = 1]
      ELSE remembered

Finish(g) ==
    /\ frame' = g
    /\ pc' = IF g.status = "running" THEN pc ELSE "idle"
    /\ ret' = IF g.status = "running" THEN ret ELSE Returned(g)

Call_cashflows(bond_id) ==
    /\ pc = "idle"
    /\ pc' = "cashflows"
    /\ frame' = cashflows_enter(bond_id)
    /\ evaluationDate' = dates(0)
    /\ ret' = NoRet
    /\ pass' = [steps |-> 0, added |-> Zeros(Len(bond_cashflows(bond_id))),
                regress |-> FALSE]
    /\ UNCHANGED <<config, remembered>>

Step_cashflows ==
    /\ pc = "cashflows"
    /\ LET g == cashflows_step(frame)
       IN  /\ Finish(g)
           /\ pass' = PassAfter(frame, g)
           /\ remembered' = RememberedAfter(g)
    /\ UNCHANGED <<config, evaluationDate>>

Call_redemptions(bond_id) ==
    /\ pc = "idle"
    /\ pc' = "redemptions"
    /\ frame' = redemptions_enter(bond_id)
    /\ evaluationDate' = dates(0)
    /\ ret' = NoRet
    /\ pass' = [steps |-> 0, added |-> Zeros(Len(bond_redemptions(bond_id))),
                regress |-> FALSE]
    /\ UNCHANGED <<config, remembered>>

Step_redemptions ==
    /\ pc = "redemptions"
    /\ LET g == redemptions_step(frame)
       IN  /\ Finish(g)
           /\ pass' = PassAfter(frame, g)
           /\ remembered' = RememberedAfter(g)
    /\ UNCHANGED <<config, evaluationDate>>

Call_cashflows_total ==
    /\ pc = "idle"
    /\ pc' = "cashflows_total"
    /\ frame' = cashflows_total_enter
    /\ ret' = NoRet
    /\ pass' = NoPass
    /\ UNCHANGED <<config, evaluationDate, remembered>>

Step_cashflows_total ==
    /\ pc = "cashflows_total"
    /\ Finish(cashflows_total_step(frame))
    /\ evaluationDate' =
          IF total_step_calls_bond(frame) THEN dates(0) ELSE evaluationDate
    /\ UNCHANGED <<config, remembered, pass>>

Call_redemptions_total ==
    /\ pc = "idle"
    /\ pc' = "redemptions_total"
    /\ frame' = redemptions_total_enter
    /\ ret' = NoRet
    /\ pass' = NoPass
    /\ UNCHANGED <<config, evaluationDate, remembered>>

Step_redemptions_total ==
    /\ pc = "redemptions_total"
    /\ Finish(redemptions_total_step(frame))
    /\ evaluationDate' =
          IF total_step_calls_bond(frame) THEN dates(0) ELSE evaluationDate
    /\ UNCHANGED <<config, remembered, pass>>

Call_t_length ==
    /\ pc = "idle"
    /\ ret' = [cell |-> "t_length", bond_id |-> 0, status |-> "returned",
               value |-> t_length]
    /\ frame' = NoFrame
    /\ pass' = NoPass
    /\ UNCHANGED <<config, evaluationDate, pc, remembered>>

Call_riskfree_curve ==
    /\ pc = "idle"
    /\ evaluationDate' = dates(0)
    /\ ret' = [cell |-> "riskfree_curve", bond_id |-> 0, status |-> "returned",
               value |-> dates(0)]
    /\ frame' = NoFrame
    /\ pass' = NoPass
    /\ UNCHANGED <<config, pc, remembered>>

Call_schedule(bond_id) ==
    /\ pc = "idle"
    /\ ret' = [cell |-> "schedule", bond_id |-> bond_id, status |-> "returned",
               value |-> schedule_tenor(bond_data[bond_id].tenor)]
    /\ frame' = NoFrame
    /\ pass' = NoPass
    /\ UNCHANGED <<config, evaluationDate, pc, remembered>>

\* keep one result of cashflows or redemptions to compare later ones with
Remember ==
    /\ pc = "idle"
    /\ ret.cell \in {"cashflows", "redemptions"}
    /\ remembered = NoRemembered
    /\ remembered' = [cell |-> ret.cell, bond_id |-> ret.bond_id,
                      status |-> ret.status, value |-> ret.value, reruns |-> 0]
    /\ UNCHANGED <<config, evaluationDate, pc, frame, ret, pass>>

-----------------------------------------------------------------------------
\* Inputs

\* The bucketing pass alone: one bond with any stream of up to MaxLen
\* events, sorted or not, over a horizon of one or two periods.
InitDates == { <<"2","0","2","2","-","0","1","-","0","1">> }

EndDates ==
    { <<"2","0","2","3","-","0","1","-","0","1">>,
      <<"2","0","2","3","-","0","6","-","0","1">> }

EventDates ==
    { <<2021, 6, 1>>, <<2022, 1, 1>>, <<2022, 6, 1>>, <<2023, 1, 1>>,
      <<2023, 6, 1>> }

EventKinds ==
    { [kind |-> "coupon", amount |-> 7],
      [kind |-> "redemption", amount |-> 100] }

Events ==
    { [date |-> d, kind |-> k.kind, amount |-> k.amount] :
        d \in EventDates, k \in EventKinds }

SeqsUpTo(S, n) == UNION { [1..k -> S] : k \in 0..n }

TenorLabels == {"1Y", "6M", "6Y"}

Idle ==
    /\ evaluationDate = NullDate
    /\ pc = "idle"
    /\ frame = NoFrame
    /\ ret = NoRet
    /\ remembered = NoRemembered
    /\ pass = NoPass

InitBucket ==
    /\ date_init \in InitDates
    /\ date_end \in EndDates
    /\ \E leg \in SeqsUpTo(Events, MaxLen) :
          bond_data = << [tenor |-> "1Y", leg |-> leg] >>
    /\ Idle

NextBucket ==
    \/ \E b \in bond_index : Call_cashflows(b)
    \/ Step_cashflows
    \/ \E b \in bond_index : Call_redemptions(b)
    \/ Step_redemptions

SpecBucket == InitBucket /\ [][NextBucket]_vars

DigitChar(n) ==
    CASE n = 0 -> "0" [] n = 1 -> "1" [] n = 2 -> "2" [] n = 3 -> "3"
      [] n = 4 -> "4" [] n = 5 -> "5" [] n = 6 -> "6" [] n = 7 -> "7"
      [] n = 8 -> "8" [] n = 9 -> "9"

\* the string 'YYYY-MM-DD' of a date
DateString(d) ==
    << DigitChar(d[1] \div 1000), DigitChar((d[1] \div 100) % 10),
       DigitChar((d[1] \div 10) % 10), DigitChar(d[1] % 10), "-",
       DigitChar(d[2] \div 10), DigitChar(d[2] % 10), "-",
       DigitChar(d[3] \div 10), DigitChar(d[3] % 10) >>

\* The date axis alone: any two of these dates as valuation and end date,
\* and an empty bond table.
AxisYears == 2022..2026

AxisDates ==
    { <<y, md[1], md[2]>> : y \in AxisYears,
                            md \in {<<1, 1>>, <<2, 28>>, <<3, 1>>} }
      \cup { <<y, 2, 29>> : y \in { x \in AxisYears : IsLeap(x) } }

InitAxis ==
    /\ date_init \in { DateString(d) : d \in AxisDates }
    /\ date_end \in { DateString(d) : d \in AxisDates }
    /\ bond_data = <<>>
    /\ Idle

NextAxis ==
    \/ Call_t_length
    \/ Call_riskfree_curve

SpecAxis == InitAxis /\ [][NextAxis]_vars

\* The portfolio: a valuation date on 29 February as well, and up to
\* MaxBonds rows, each with any tenor label and one of a few legs.
InitDatesEnds ==
    { << <<"2","0","2","2","-","0","1","-","0","1">>,
         <<"2","0","2","1","-","0","1","-","0","1">> >>,
      << <<"2","0","2","2","-","0","1","-","0","1">>,
         <<"2","0","2","3","-","0","1","-","0","1">> >>,
      << <<"2","0","2","2","-","0","1","-","0","1">>,
         <<"2","0","2","3","-","0","6","-","0","1">> >>,
      << <<"2","0","2","4","-","0","2","-","2","9">>,
         <<"2","0","2","6","-","0","2","-","2","8">> >> }

Coupon(d) == [date |-> d, kind |-> "coupon", amount |-> 7]

Redemption(d) == [date |-> d, kind |-> "redemption", amount |-> 100]

SampleLegs ==
    { << Coupon(<<2022, 6, 1>>), Redemption(<<2023, 1, 1>>),
         Redemption(<<2025, 2, 28>>) >>,
      << Coupon(<<2023, 6, 1>>), Coupon(<<2022, 6, 1>>) >> }

SampleRows == [tenor : TenorLabels, leg : SampleLegs]

Init ==
    /\ \E c \in InitDatesEnds : date_init = c[1] /\ date_end = c[2]
    /\ bond_data \in SeqsUpTo(SampleRows, MaxBonds)
    /\ Idle

Next ==
    \/ \E b \in bond_index : Call_cashflows(b)
    \/ Step_cashflows
    \/ \E b \in bond_index : Call_redemptions(b)
    \/ Step_redemptions
    \/ Call_cashflows_total
    \/ Step_cashflows_total
    \/ Call_redemptions_total
    \/ Step_redemptions_total
    \/ Call_t_length
    \/ Call_riskfree_curve
    \/ \E b \in bond_index : Call_schedule(b)
    \/ Remember

Spec == Init /\ [][Next]_vars

-----------------------------------------------------------------------------
\* What the claims speak of

ValuationDate == ParseDate(date_init)

EndDate == ParseDate(date_end)

Sorted(leg) ==
    \A k \in 1..(Len(leg) - 1) : DateLE(leg[k].date, leg[k + 1].date)

RECURSIVE SumAmounts(_)
SumAmounts(leg) ==
    IF leg = <<>> THEN 0 ELSE Head(leg).amount + SumAmounts(Tail(leg))

RECURSIVE SumSeq(_)
SumSeq(q) == IF q = <<>> THEN 0 ELSE Head(q) + SumSeq(Tail(q))

\* the events of leg dated in [lo, hi)
Within(leg, lo, hi) ==
    SelectSeq(leg, LAMBDA e : DateLE(lo, e.date) /\ DateLT(e.date, hi))

\* the event stream the finished call ret bucketed
LegOf(r) ==
    IF r.cell = "cashflows" THEN bond_cashflows(r.bond_id)
                            ELSE bond_redemptions(r.bond_id)

BucketCall == pc = "idle" /\ ret.cell \in {"cashflows", "redemptions"}

RECURSIVE CashflowsColumn(_, _)
CashflowsColumn(t, n) ==
    IF n = 0 THEN 0
    ELSE cashflows(n).result[t + 1] + CashflowsColumn(t, n - 1)

RECURSIVE RedemptionsColumn(_, _)
RedemptionsColumn(t, n) ==
    IF n = 0 THEN 0
    ELSE redemptions(n).result[t + 1] + RedemptionsColumn(t, n - 1)

-----------------------------------------------------------------------------
\* C1: on a date-sorted event stream cashflows(bond_id) and
\* redemptions(bond_id) return an array of length t_length() whose entry t
\* is the sum of the amounts of exactly the events with
\* dates(t) <= date < dates(t+1).
C1_BucketIsHalfOpenSum ==
    (BucketCall /\ Sorted(LegOf(ret))) =>
        /\ ret.status = "returned"
        /\ Len(ret.value) = t_length
        /\ \A t \in 0..(t_length - 1) :
              ret.value[t + 1] =
                  SumAmounts(Within(LegOf(ret), dates(t), dates(t + 1)))

\* a finished pass over two periods and a sorted stream with an event dated
\* exactly dates(1), counted in bucket 1 and not in bucket 0
C1_Witness ==
    /\ BucketCall
    /\ Sorted(LegOf(ret))
    /\ t_length = 2
    /\ Len(LegOf(ret)) = 2
    /\ LegOf(ret)[1].date = dates(1)
    /\ LegOf(ret)[2].date = dates(1)
    /\ ret.value[1] = 0
    /\ ret.value[2] = LegOf(ret)[1].amount + LegOf(ret)[2].amount

\* C2: with the end date after the valuation date t_length() returns the
\* one N >= 1 with dates(N) >= end date and dates(N-1) < end date, dates(0)
\* being the valuation date.
C2_HorizonLength ==
    (ret.cell = "t_length" /\ DateLT(ValuationDate, EndDate)) =>
        /\ ret.status = "returned"
        /\ ret.value >= 1
        /\ dates(0) = ValuationDate
        /\ DateLE(EndDate, dates(ret.value))
        /\ DateLT(dates(ret.value - 1), EndDate)
        /\ \A M \in 1..(ret.value + 2) :
              (DateLE(EndDate, dates(M)) /\ DateLT(dates(M - 1), EndDate))
                  => M = ret.value

\* t_length() has returned 3 for an end date exactly three years after the
\* valuation date
C2_Witness ==
    /\ ret.cell = "t_length"
    /\ ValuationDate = <<2022, 1, 1>>
    /\ EndDate = <<2025, 1, 1>>
    /\ ret.value = 3

\* C3: with the end date before the valuation date t_length() and the cells
\* that depend on it end in an error and return no normal result.
C3_EndBeforeValuationFails ==
    ( /\ pc = "idle"
      /\ ret.cell \in {"t_length", "cashflows", "redemptions",
                       "cashflows_total", "redemptions_total"}
      /\ DateLT(EndDate, ValuationDate) )
        => ret.status # "returned"

\* C4: on a date-sorted event stream cashflows(bond_id) raises nothing and
\* its buckets add up to the amounts of exactly the events dated in
\* [dates(0), dates(t_length())).
C4_BucketsAddUpToHorizon ==
    (BucketCall /\ ret.cell = "cashflows" /\ Sorted(LegOf(ret))) =>
        /\ ret.status = "returned"
        /\ SumSeq(ret.value) =
              SumAmounts(Within(LegOf(ret), dates(0), dates(t_length)))

\* a finished pass over a sorted stream of an event before dates(0), an event
\* inside the horizon and an event on dates(t_length()): only the second is
\* in the buckets
C4_Witness ==
    /\ BucketCall
    /\ ret.cell = "cashflows"
    /\ t_length = 1
    /\ Len(LegOf(ret)) = 3
    /\ DateLT(LegOf(ret)[1].date, dates(0))
    /\ DateLE(dates(0), LegOf(ret)[2].date)
    /\ DateLT(LegOf(ret)[2].date, dates(1))
    /\ LegOf(ret)[3].date = dates(1)
    /\ ret.status = "returned"
    /\ ret.value = << LegOf(ret)[2].amount >>

\* C5: on an event stream that is not date-sorted cashflows(bond_id) and
\* redemptions(bond_id) end in an error and return no bucket array.
C5_UnsortedStreamFails ==
    (BucketCall /\ ~Sorted(LegOf(ret))) => ret.status = "AssertionError"

\* C6: cashflows_total() and redemptions_total() return an array of length
\* t_length() whose entry t is the sum over the bond table of
\* cashflows(bond_id)[t], respectively redemptions(bond_id)[t]; they return
\* whenever every bond's cell returns, and all zeros on an empty table.
C6_TotalsAreColumnSums ==
    /\ (pc = "idle" /\ ret.cell = "cashflows_total") =>
          IF \A b \in bond_index : cashflows(b).status = "returned"
            THEN /\ ret.status = "returned"
                 /\ Len(ret.value) = t_length
                 /\ \A t \in 0..(t_length - 1) :
                       ret.value[t + 1] = CashflowsColumn(t, Len(bond_data))
                 /\ bond_data = <<>> => ret.value = Zeros(t_length)
            ELSE t_length > 0 => ret.status # "returned"
    /\ (pc = "idle" /\ ret.cell = "redemptions_total") =>
          /\ ret.status = "returned"
          /\ Len(ret.value) = t_length
          /\ \A t \in 0..(t_length - 1) :
                ret.value[t + 1] = RedemptionsColumn(t, Len(bond_data))
          /\ bond_data = <<>> => ret.value = Zeros(t_length)

\* cashflows_total() has returned for two bonds and two periods, both bonds
\* paying in the first period
C6_Witness ==
    /\ pc = "idle"
    /\ ret.cell = "cashflows_total"
    /\ ret.status = "returned"
    /\ Len(bond_data) = 2
    /\ t_length = 2
    /\ cashflows(1).result[1] > 0
    /\ cashflows(2).result[1] > 0
    /\ ret.value[1] = cashflows(1).result[1] + cashflows(2).result[1]

C8_EvaluationDateUnchanged == [][evaluationDate' = evaluationDate]_vars

\* C9: in the bucketing pass of cashflows and redemptions, on any event
\* stream, the cursor i and the period t never go back, i never exceeds the
\* number of events, no event's amount is added twice, every step of an
\* unfinished pass moves on, and the cursor and period steps number at most
\* the events plus t_length().
C9_SingleForwardPass ==
    frame.cell \in {"cashflows", "redemptions"} =>
        /\ frame.i >= 0 /\ frame.i <= Len(frame.leg)
        /\ frame.t >= 0 /\ frame.t <= t_length
        /\ ~pass.regress
        /\ \A k \in 1..Len(frame.leg) : pass.added[k] <= 1
        /\ pass.steps = frame.i + frame.t
        /\ pass.steps <= Len(frame.leg) + t_length
        /\ pc = "cashflows" => cashflows_step(frame) # frame
        /\ pc = "redemptions" => redemptions_step(frame) # frame

\* a pass of redemptions over an unsorted stream has ended after moving the
\* cursor over every event and the period to the end, one event added
C9_Witness ==
    /\ pc = "idle"
    /\ frame.cell = "redemptions"
    /\ frame.status = "returned"
    /\ ~Sorted(frame.leg)
    /\ Len(frame.leg) = 3
    /\ frame.i = 3
    /\ frame.t = 2
    /\ pass.steps = 5
    /\ \E k \in 1..3 : pass.added[k] = 1

\* C10: schedule(bond_id) takes the semiannual frequency exactly when the
\* bond's tenor label is '6Y'; a bond labelled '6M' is scheduled annually.
C10_SemiannualOnlyFor6Y ==
    (pc = "idle" /\ ret.cell = "schedule") =>
        /\ ret.value = "Semiannual" <=> bond_data[ret.bond_id].tenor = "6Y"
        /\ bond_data[ret.bond_id].tenor \in {"6M", "1Y"} => ret.value = "Annual"

\* schedule has returned an annual frequency for a bond labelled '6M'
C10_Witness ==
    /\ pc = "idle"
    /\ ret.cell = "schedule"
    /\ bond_data[ret.bond_id].tenor = "6M"
    /\ ret.value = "Annual"

====
